---- MODULE Spec2Model ----
(***************************************************************************)
(* seqlog: SeqLogHandler (src/seqlog/structured_logging.py) and the        *)
(* QueueConsumer it drives (seqlog/consumer.py, modelled from spec.md      *)
(* section 4.2: batching dispatcher).                                      *)
(*                                                                         *)
(* Spec     the batching dispatcher: producers, worker loop, manual        *)
(*          flush, stop/close.                                             *)
(* SpecPub  the normalizer and publisher: logging calls, the global        *)
(*          property store, _build_event_data and publish_log_batch.       *)
(***************************************************************************)
EXTENDS Integers, Sequences, FiniteSets, TLC

VARIABLES
    \* ---- dispatcher (Spec) ----
    batch_size,          \* QueueConsumer.batch_size
    auto_flush_timeout,  \* <<>> (None) or <<seconds>>
    log_queue,           \* SeqLogHandler.log_queue (FIFO of records)
    buffer,              \* DispatcherState.current buffer
    flush_deadline,      \* <<>> (none) or <<time units left until the deadline>>
    running,             \* DispatcherState.running / consumer.is_running
    state,               \* "Running" | "Stopping" | "Stopped"
    lock,                \* holder of the dispatcher's lock, or NoThread
    pc,                  \* position of every thread
    held,                \* the record the worker has dequeued, <<>> if none
    emitted,             \* per producer: number of emit calls made
    session_open,        \* SeqLogHandler.session not yet closed
    \* history of the dispatcher run
    entered,             \* records in the order they entered log_queue
    published,           \* batches in the order handed to the callback
    publishing,          \* threads currently inside the publish callback
    stopBuffer,          \* buffer contents at the moment stop() was called
    stopVia,             \* "none", or how stop() was called: "stop" | "close"
    init_args,           \* the arguments SeqLogHandler.__init__ was given
    manualFlush,         \* a manual flush() call has been made
    \* ---- normalizer and publisher (SpecPub) ----
    gprops,              \* _global_log_props
    formatter,           \* SeqLogHandler.formatter: "none" (the default) or "set"
    pub,                 \* what the last publish_log_batch call did
    nlogs                \* logging calls made so far

dvars == <<batch_size, auto_flush_timeout, log_queue, buffer, flush_deadline,
           running, state, lock, pc, held, emitted, session_open, entered,
           published, publishing, stopBuffer, stopVia, init_args, manualFlush>>

pvars == <<gprops, formatter, pub, nlogs>>

vars == <<dvars, pvars>>

\* ---------------------------------------------------------------- bounds
MaxEvents == 3
MaxBatch == 2
MaxTimeout == 1
MaxLogs == 2

\* ---------------------------------------------------------------- helpers
Producers == {"p1", "p2"}
Flushers == {"f1", "f2"}
NoThread == "none"
Threads == {"worker", "ctl"} \cup Flushers

None == <<>>

RECURSIVE Flatten(_)
Flatten(batches) ==
    IF batches = <<>> THEN <<>> ELSE Head(batches) \o Flatten(Tail(batches))

IsPrefix(s, t) == Len(s) <= Len(t) /\ SubSeq(t, 1, Len(s)) = s

Range(s) == {s[i] : i \in 1..Len(s)}

CeilDiv(n, b) == (n + b - 1) \div b

\* ---------------------------------------------------------------- values
\* Python values are written as strings: "i42" the int 42, "s..." a str,
\* "bhi" the bytes b'hi' (valid UTF-8), "bFF" the bytes b'\xff' (not UTF-8),
\* "obj" a value json cannot serialise (a set), "cyc" a list containing itself.
EmptyDict == [k \in {} |-> "s"]

\* {**base, **over}
Overlay(base, over) == over @@ base

\* str(value), as "%s" and str.format render it
Str(v) ==
    CASE v = "i42"  -> "42"
      [] v = "i1"   -> "1"
      [] v = "i7"   -> "7"
      [] v = "bhi"  -> "b'hi'"
      [] v = "bFF"  -> "b'\\xff'"
      [] v = "obj"  -> "{1}"
      [] v = "cyc"  -> "[[...]]"
      [] v = "shost" -> "host"
      [] v = "sweb" -> "web"
      [] v = "sapp" -> "app"
      [] v = "sMain" -> "Main"
      [] v = "shi"  -> "hi"
      [] OTHER      -> v

IsBytes(v) == v \in {"bhi", "bFF"}

\* _encode_bytes_if_required: bytes become the UTF-8 text, or the Base64
\* text when they are not valid UTF-8; anything else is returned as it is
_encode_bytes_if_required(data) ==
    IF ~IsBytes(data) THEN data
    ELSE IF data = "bhi" THEN "shi"
    ELSE "s/w==\n"

\* _default_global_log_props
_default_global_log_props == [MachineName |-> "shost", ProcessId |-> "i1"]

\* get_global_log_properties(logger_name): a copy of the global properties,
\* with LoggerName when a logger name is given
get_global_log_properties(g, logger_name) ==
    IF logger_name # "" THEN Overlay(g, [LoggerName |-> "s" \o logger_name]) ELSE g

\* set_global_log_properties(**properties)
set_global_log_properties(properties) == properties

\* reset_global_log_properties()
reset_global_log_properties == _default_global_log_props

\* clear_global_log_properties()
clear_global_log_properties == EmptyDict

\* ---------------------------------------------------------------- records
\* A message is a sequence of pieces; "%s" is a positional placeholder and
\* "{who}" a named one.
PercentS == "%s"

NamedField(piece) == IF piece = "{who}" THEN "who" ELSE ""

RECURSIVE CountPercent(_)
CountPercent(msg) ==
    IF msg = <<>> THEN 0
    ELSE (IF Head(msg) = PercentS THEN 1 ELSE 0) + CountPercent(Tail(msg))

RECURSIVE Substitute(_, _)
Substitute(msg, args) ==
    IF msg = <<>> THEN <<>>
    ELSE IF Head(msg) = PercentS
         THEN <<Str(Head(args))>> \o Substitute(Tail(msg), Tail(args))
         ELSE <<Head(msg)>> \o Substitute(Tail(msg), args)

\* msg % args: TypeError unless there is one argument per placeholder
PercentFormat(msg, args) ==
    IF CountPercent(msg) # Len(args)
    THEN [raised |-> "TypeError", value |-> <<>>]
    ELSE [raised |-> "none", value |-> Substitute(msg, args)]

\* msg.format(**log_props): KeyError when a named field is missing
StrFormat(msg, log_props) ==
    IF \E i \in 1..Len(msg) :
          NamedField(msg[i]) # "" /\ NamedField(msg[i]) \notin DOMAIN log_props
    THEN [raised |-> "KeyError", value |-> <<>>]
    ELSE [raised |-> "none",
          value |-> [i \in 1..Len(msg) |->
                       IF NamedField(msg[i]) # ""
                       THEN Str(log_props[NamedField(msg[i])]) ELSE msg[i]]]

\* (variant: getMessage returns the template as it was given)
getMessageLiteral(record) == [raised |-> "none", value |-> record.msg]

\* StructuredLogRecord.getMessage (logging.LogRecord.getMessage for a plain
\* record: str(msg), % args when there are args)
getMessage(record) ==
    IF record.args # <<>>
    THEN PercentFormat(record.msg, record.args)
    ELSE IF record.cls = "structured"
         THEN (IF StrFormat(record.msg, record.log_props).raised = "none"
               THEN StrFormat(record.msg, record.log_props)
               ELSE [raised |-> "none", value |-> record.msg])
         ELSE [raised |-> "none", value |-> record.msg]

\* StructuredLogRecord.__init__: log_props or {}, plus ThreadId and
\* ThreadName unless they are already there
StructuredLogRecord(name, msg, args, exc, log_props) ==
    [cls |-> "structured", name |-> name, msg |-> msg, args |-> args, exc |-> exc,
     log_props |-> Overlay([ThreadId |-> "i7", ThreadName |-> "sMain"], log_props)]

\* logging.LogRecord, made by a logger that is not a StructuredLogger
LogRecord(name, msg, args, exc) ==
    [cls |-> "plain", name |-> name, msg |-> msg, args |-> args, exc |-> exc,
     log_props |-> EmptyDict]

\* StructuredLogger._log and makeRecord: a copy of the global properties
\* (with LoggerName), the keyword arguments laid over it
_log(g, name, msg, args, exc, kwargs) ==
    StructuredLogRecord(name, msg, args, exc,
                        Overlay(get_global_log_properties(g, name), kwargs))

\* ---------------------------------------------------------------- publisher
IndexName == <<"0", "1", "2">>

\* the argument properties: str(arg_index) -> the encoded argument
ArgProperties(args) ==
    [k \in {IndexName[i] : i \in 1..Len(args)} |->
        _encode_bytes_if_required(
            args[CHOOSE i \in 1..Len(args) : IndexName[i] = k])]

\* _build_event_data, the "Properties" of the three branches
BuildProperties(record, g) ==
    IF record.args # <<>>
    THEN Overlay(get_global_log_properties(g, record.name), ArgProperties(record.args))
    ELSE IF record.cls = "structured"
         THEN [k \in DOMAIN record.log_props |->
                  _encode_bytes_if_required(record.log_props[k])]
         ELSE g

\* _build_event_data, the "MessageTemplate" of the three branches
BuildMessageTemplate(record) ==
    IF record.args # <<>> THEN getMessage(record)
    ELSE IF record.cls = "structured"
         THEN [raised |-> "none", value |-> record.msg]
         ELSE getMessage(record)

\* self.formatter.formatException(record.exc_info): self.formatter is None
\* unless a formatter was set on the handler
FormatException(fmt) ==
    IF fmt = "none" THEN [raised |-> "AttributeError", has |-> FALSE]
    ELSE [raised |-> "none", has |-> TRUE]

\* _build_event_data, the exception part: the cached text, else the given
\* exc_info tuple, else the ambient exception when exc_info is set
BuildException(record, fmt, ambient) ==
    IF record.exc = "cached" THEN [raised |-> "none", has |-> TRUE]
    ELSE IF record.exc = "tuple" THEN FormatException(fmt)
    ELSE IF record.exc = "flag" /\ ambient THEN FormatException(fmt)
    ELSE [raised |-> "none", has |-> FALSE]

NoEvent == [Level |-> "none"]

\* _build_event_data(record): the event, or the exception it raises
_build_event_data(record, g, fmt, ambient) ==
    LET template == BuildMessageTemplate(record)
        exception == BuildException(record, fmt, ambient)
        event == [Timestamp |-> "t", Level |-> "INFO",
                  MessageTemplate |-> template.value,
                  Properties |-> BuildProperties(record, g)]
    IN  IF template.raised # "none"
        THEN [raised |-> template.raised, event |-> NoEvent]
        ELSE IF exception.raised # "none"
        THEN [raised |-> exception.raised, event |-> NoEvent]
        ELSE [raised |-> "none",
              event |-> IF exception.has
                        THEN event @@ [Exception |-> "exc_text"] ELSE event]

\* what json.dumps does with one property value
DumpsValue(v) ==
    IF v = "obj" \/ IsBytes(v) THEN "TypeError"
    ELSE IF v = "cyc" THEN "ValueError"
    ELSE "ok"

DumpsEvent(event) ==
    LET bad == {k \in DOMAIN event.Properties : DumpsValue(event.Properties[k]) # "ok"}
    IN  IF bad = {} THEN "ok"
        ELSE DumpsValue(event.Properties[CHOOSE k \in bad : TRUE])

\* json.dumps(request_body, cls=...): the events are encoded in order, and
\* the first value that cannot be encoded raises (TypeError for a value of an
\* unsupported type, ValueError for a circular reference)
dumps(events) ==
    LET bad == {i \in 1..Len(events) : DumpsEvent(events[i]) # "ok"}
    IN  IF bad = {} THEN "ok"
        ELSE DumpsEvent(events[CHOOSE i \in bad : \A j \in bad : i <= j])

\* session.post(...) then response.raise_for_status(): "ok"; "network" a
\* RequestException with no response; "http_*" the HTTPError raise_for_status
\* raises for a 4xx/5xx response; "redirect_*" the TooManyRedirects post
\* raises, which carries the last 3xx response
PostResults ==
    {"ok", "network", "http_body", "http_empty", "redirect_body", "redirect_empty"}

\* requestFailed.response is falsy: None for a network error, and a Response
\* whose status is an error (Response.__bool__ is Response.ok)
ResponseIsFalsy(post) == post \in {"network", "http_body", "http_empty"}

\* requestFailed.response.text is empty
ResponseTextIsEmpty(post) == post \in {"http_empty", "redirect_empty"}

\* the text written to sys.stderr after a failed request
Diagnostic(post) ==
    IF ResponseIsFalsy(post) THEN "unavailable"
    ELSE IF ResponseTextIsEmpty(post) THEN "empty"
    ELSE "body"

\* the records passed to handleError when json.dumps raises TypeError
SerializationFailureReports(batch) == batch

\* (variant: every record is reported when the request fails)
TransportFailureReportsAll(batch) == batch

\* the records passed to handleError when the request fails
TransportFailureReports(batch) == <<batch[1]>>

NoPublish ==
    [batch |-> <<>>, globals |-> EmptyDict, events |-> <<>>, dumps |-> "n/a",
     post |-> "n/a", sends |-> 0, reported |-> <<>>, raised |-> "none",
     diag |-> "none"]

\* SeqLogHandler.publish_log_batch(batch)
publish_log_batch(batch, g, fmt, post, ambient) ==
    LET built == [i \in 1..Len(batch) |-> _build_event_data(batch[i], g, fmt, ambient)]
        failed == {i \in 1..Len(batch) : built[i].raised # "none"}
        events == [i \in 1..Len(batch) |-> built[i].event]
        entry == [NoPublish EXCEPT !.batch = batch, !.globals = g]
    IN  IF Len(batch) = 0 THEN NoPublish
        ELSE IF failed # {}
        THEN [entry EXCEPT
                !.raised = built[CHOOSE i \in failed : \A j \in failed : i <= j].raised]
        ELSE IF dumps(events) = "TypeError"
        THEN [entry EXCEPT !.events = events, !.dumps = "TypeError",
                           !.reported = SerializationFailureReports(batch)]
        ELSE IF dumps(events) # "ok"
        THEN [entry EXCEPT !.events = events, !.dumps = dumps(events),
                           !.raised = dumps(events)]
        ELSE IF post = "ok"
        THEN [entry EXCEPT !.events = events, !.dumps = "ok", !.post = post,
                           !.sends = 1]
        ELSE [entry EXCEPT !.events = events, !.dumps = "ok", !.post = post,
                           !.sends = 1,
                           !.reported = TransportFailureReports(batch),
                           !.diag = Diagnostic(post)]

\* ---------------------------------------------------------------- handler
\* SeqLogHandler.__init__: the consumer is built on the handler's queue with
\* the handler's batch_size and auto_flush_timeout, and started.
\* (variant: the consumer is given a batch size one larger than the handler's)
ConsumerBatchSizeOffByOne(b) == b + 1

ConsumerBatchSize(b) == b

\* (variant: the handler's auto_flush_timeout is not passed on to the consumer)
ConsumerTimeoutDropped(t) == None

ConsumerTimeout(t) == t

\* (variant: the record is put at the head of the queue)
emitAtHead(q, record) == <<record>> \o q

\* SeqLogHandler.emit: log_queue.put(record, block=False) on an unbounded Queue
emit(q, record) == Append(q, record)

InitDispatcher(b, t) ==
    /\ init_args = [batch_size |-> b, auto_flush_timeout |-> t]
    /\ batch_size = ConsumerBatchSize(b)
    /\ auto_flush_timeout = ConsumerTimeout(t)
    /\ log_queue = <<>>
    /\ buffer = <<>>
    /\ flush_deadline = None
    /\ running = TRUE
    /\ state = "Running"
    /\ lock = NoThread
    /\ pc = [t2 \in Threads |-> IF t2 = "worker" THEN "wait" ELSE "idle"]
    /\ held = <<>>
    /\ emitted = [p \in Producers |-> 0]
    /\ session_open = TRUE
    /\ entered = <<>>
    /\ published = <<>>
    /\ publishing = {}
    /\ stopBuffer = <<>>
    /\ stopVia = "none"
    /\ manualFlush = FALSE

InitPublisher(fmt) ==
    /\ gprops = _default_global_log_props
    /\ formatter = fmt
    /\ pub = NoPublish
    /\ nlogs = 0

Init ==
    /\ \E b \in 1..MaxBatch, t \in {None} \cup {<<n>> : n \in 1..MaxTimeout} :
          InitDispatcher(b, t)
    /\ InitPublisher("none")

\* A producer thread's logging call reaches SeqLogHandler.emit.
Enqueue(p) ==
    /\ Len(entered) < MaxEvents
    /\ LET record == <<p, emitted[p] + 1>> IN
         /\ log_queue' = emit(log_queue, record)
         /\ entered' = Append(entered, record)
    /\ emitted' = [emitted EXCEPT ![p] = @ + 1]
    /\ UNCHANGED <<batch_size, auto_flush_timeout, buffer, flush_deadline,
                   running, state, lock, pc, held, session_open, published,
                   publishing, stopBuffer, stopVia, init_args, manualFlush>>
    /\ UNCHANGED pvars

\* ---------------------------------------------------------------- worker
\* worker loop: the wait on the queue returns the next event
WorkerDequeue ==
    /\ pc["worker"] = "wait"
    /\ running
    /\ log_queue # <<>>
    /\ held' = <<Head(log_queue)>>
    /\ log_queue' = Tail(log_queue)
    /\ pc' = [pc EXCEPT !["worker"] = "append"]
    /\ UNCHANGED <<batch_size, auto_flush_timeout, buffer, flush_deadline,
                   running, state, lock, emitted, session_open, entered,
                   published, publishing, stopBuffer, stopVia, init_args, manualFlush>>
    /\ UNCHANGED pvars

\* the deadline armed when the buffer goes from empty to non-empty
NewDeadline(buf, deadline, timeout) ==
    IF buf = <<>> /\ timeout # None THEN timeout ELSE deadline

\* worker loop: append the event to the buffer under the lock; a full buffer
\* is flushed immediately
WorkerAppend ==
    /\ pc["worker"] = "append"
    /\ lock = NoThread
    /\ buffer' = Append(buffer, held[1])
    /\ flush_deadline' = NewDeadline(buffer, flush_deadline, auto_flush_timeout)
    /\ held' = <<>>
    /\ pc' = [pc EXCEPT !["worker"] =
                IF Len(buffer) + 1 >= batch_size THEN "flush" ELSE "wait"]
    /\ UNCHANGED <<batch_size, auto_flush_timeout, log_queue, running, state,
                   lock, emitted, session_open, entered, published, publishing,
                   stopBuffer, stopVia, init_args, manualFlush>>
    /\ UNCHANGED pvars

\* worker loop: the wait timed out because flush_deadline elapsed
WorkerTimeout ==
    /\ pc["worker"] = "wait"
    /\ running
    /\ flush_deadline = <<0>>
    /\ pc' = [pc EXCEPT !["worker"] = "flush"]
    /\ UNCHANGED <<batch_size, auto_flush_timeout, log_queue, buffer,
                   flush_deadline, running, state, lock, held, emitted,
                   session_open, entered, published, publishing, stopBuffer,
                   stopVia, init_args, manualFlush>>
    /\ UNCHANGED pvars

\* worker loop: stop() was called; leave the loop and flush what is buffered
WorkerExit ==
    /\ pc["worker"] = "wait"
    /\ ~running
    /\ pc' = [pc EXCEPT !["worker"] = "final"]
    /\ UNCHANGED <<batch_size, auto_flush_timeout, log_queue, buffer,
                   flush_deadline, running, state, lock, held, emitted,
                   session_open, entered, published, publishing, stopBuffer,
                   stopVia, init_args, manualFlush>>
    /\ UNCHANGED pvars

\* time passes towards the pending deadline
Tick ==
    /\ flush_deadline # None
    /\ flush_deadline[1] > 0
    /\ flush_deadline' = <<flush_deadline[1] - 1>>
    /\ UNCHANGED <<batch_size, auto_flush_timeout, log_queue, buffer, running,
                   state, lock, pc, held, emitted, session_open, entered,
                   published, publishing, stopBuffer, stopVia, init_args, manualFlush>>
    /\ UNCHANGED pvars

\* ---------------------------------------------------------------- flush
InFlush(t) == pc[t] \in {"flush", "final"}

AfterFlush(t, at) ==
    IF t = "worker"
    THEN (IF at \in {"final", "final_callback"} THEN "done" ELSE "wait")
    ELSE "idle"

\* flush: take the lock; an empty buffer is a no-op, otherwise the buffer is
\* handed to the publish callback (one publish call)
FlushBegin(t) ==
    /\ InFlush(t)
    /\ lock = NoThread
    /\ IF buffer = <<>>
       THEN /\ pc' = [pc EXCEPT ![t] = AfterFlush(t, pc[t])]
            /\ UNCHANGED <<lock, published, publishing>>
       ELSE /\ lock' = t
            /\ published' = Append(published, buffer)
            /\ publishing' = publishing \cup {t}
            /\ pc' = [pc EXCEPT ![t] =
                        IF pc[t] = "final" THEN "final_callback" ELSE "callback"]
    /\ UNCHANGED <<batch_size, auto_flush_timeout, log_queue, buffer,
                   flush_deadline, running, state, held, emitted, session_open,
                   entered, stopBuffer, stopVia, init_args, manualFlush>>
    /\ UNCHANGED pvars

\* flush: the callback has returned; reset the buffer, clear the deadline,
\* release the lock
FlushEnd(t) ==
    /\ pc[t] \in {"callback", "final_callback"}
    /\ publishing' = publishing \ {t}
    /\ buffer' = <<>>
    /\ flush_deadline' = None
    /\ lock' = NoThread
    /\ pc' = [pc EXCEPT ![t] = AfterFlush(t, pc[t])]
    /\ UNCHANGED <<batch_size, auto_flush_timeout, log_queue, running, state,
                   held, emitted, session_open, entered, published, stopBuffer,
                   stopVia, init_args, manualFlush>>
    /\ UNCHANGED pvars

\* (variant: flush() hands the buffer to publish_log_batch itself, without
\* the consumer's lock)
flushUnlocked(t) ==
    /\ pc[t] = "idle"
    /\ buffer # <<>>
    /\ published' = Append(published, buffer)
    /\ publishing' = publishing \cup {t}
    /\ pc' = [pc EXCEPT ![t] = "callback"]
    /\ manualFlush' = TRUE
    /\ UNCHANGED <<batch_size, auto_flush_timeout, log_queue, buffer,
                   flush_deadline, running, state, lock, held, emitted,
                   session_open, entered, stopBuffer, stopVia, init_args>>
    /\ UNCHANGED pvars

\* SeqLogHandler.flush: consumer.flush(), from any thread
flush(t) ==
    /\ pc[t] = "idle"
    /\ pc' = [pc EXCEPT ![t] = "flush"]
    /\ manualFlush' = TRUE
    /\ UNCHANGED <<batch_size, auto_flush_timeout, log_queue, buffer,
                   flush_deadline, running, state, lock, held, emitted,
                   session_open, entered, published, publishing, stopBuffer,
                   stopVia, init_args>>
    /\ UNCHANGED pvars

\* ---------------------------------------------------------------- stop, close
\* QueueConsumer.stop: no further dequeues; the worker flushes what is
\* buffered and terminates; stop joins it.  A no-op when not running.
stop(via) ==
    IF running
    THEN /\ running' = FALSE
         /\ state' = "Stopping"
         /\ stopBuffer' = buffer
         /\ stopVia' = via
         /\ pc' = [pc EXCEPT !["ctl"] = IF via = "close" THEN "close_join" ELSE "join"]
    ELSE /\ pc' = [pc EXCEPT !["ctl"] = IF via = "close" THEN "session" ELSE "stopped"]
         /\ UNCHANGED <<running, state, stopBuffer, stopVia>>

\* a direct stop() call
Stop ==
    /\ pc["ctl"] \in {"idle", "stopped"}
    /\ stop("stop")
    /\ UNCHANGED <<batch_size, auto_flush_timeout, log_queue, buffer,
                   flush_deadline, lock, held, emitted, session_open, entered,
                   published, publishing, init_args, manualFlush>>
    /\ UNCHANGED pvars

\* stop() joins the worker thread and the dispatcher is Stopped
Join ==
    /\ pc["ctl"] \in {"join", "close_join"}
    /\ pc["worker"] = "done"
    /\ state' = "Stopped"
    /\ pc' = [pc EXCEPT !["ctl"] = IF pc["ctl"] = "join" THEN "stopped" ELSE "session"]
    /\ UNCHANGED <<batch_size, auto_flush_timeout, log_queue, buffer,
                   flush_deadline, running, lock, held, emitted, session_open,
                   entered, published, publishing, stopBuffer, stopVia,
                   init_args, manualFlush>>
    /\ UNCHANGED pvars

\* (variant: close() does not wait for stop() before closing the session)
closeWithoutWaiting ==
    /\ pc["ctl"] \in {"idle", "stopped"}
    /\ running' = FALSE
    /\ state' = IF running THEN "Stopping" ELSE state
    /\ stopBuffer' = IF running THEN buffer ELSE stopBuffer
    /\ stopVia' = IF running THEN "close" ELSE stopVia
    /\ pc' = [pc EXCEPT !["ctl"] = "session"]
    /\ UNCHANGED <<batch_size, auto_flush_timeout, log_queue, buffer,
                   flush_deadline, lock, held, emitted, session_open, entered,
                   published, publishing, init_args, manualFlush>>
    /\ UNCHANGED pvars

\* SeqLogHandler.close: if self.consumer.is_running: self.consumer.stop()
close ==
    /\ pc["ctl"] \in {"idle", "stopped"}
    /\ stop("close")
    /\ UNCHANGED <<batch_size, auto_flush_timeout, log_queue, buffer,
                   flush_deadline, lock, held, emitted, session_open, entered,
                   published, publishing, init_args, manualFlush>>
    /\ UNCHANGED pvars

\* SeqLogHandler.close: self.session.close()
CloseSession ==
    /\ pc["ctl"] = "session"
    /\ session_open' = FALSE
    /\ pc' = [pc EXCEPT !["ctl"] = "closed"]
    /\ UNCHANGED <<batch_size, auto_flush_timeout, log_queue, buffer,
                   flush_deadline, running, state, lock, held, emitted, entered,
                   published, publishing, stopBuffer, stopVia, init_args,
                   manualFlush>>
    /\ UNCHANGED pvars

Next ==
    \/ \E p \in Producers : Enqueue(p)
    \/ WorkerDequeue
    \/ WorkerAppend
    \/ WorkerTimeout
    \/ WorkerExit
    \/ Tick
    \/ \E t \in {"worker"} \cup Flushers : FlushBegin(t)
    \/ \E t \in {"worker"} \cup Flushers : FlushEnd(t)
    \/ \E t \in Flushers : flush(t)
    \/ Stop
    \/ Join
    \/ close
    \/ CloseSession

Spec == Init /\ [][Next]_vars

\* ================================================================ SpecPub
\* the logging calls made by the application
X == <<"x">>
XPercent == <<"x=", "%s">>
HiWho == <<"hi ", "{who}">>

Call(cls, msg, args, kwargs, exc) ==
    [cls |-> cls, msg |-> msg, args |-> args, kwargs |-> kwargs, exc |-> exc]

Calls ==
    {Call("structured", XPercent, <<"i42">>, EmptyDict, "none"),
     Call("structured", X, <<"i42">>, EmptyDict, "none"),
     Call("structured", HiWho, <<>>, [data |-> "obj"], "none"),
     Call("structured", HiWho, <<>>, [data |-> "cyc"], "none"),
     Call("plain", X, <<>>, EmptyDict, "none"),
     Call("structured", X, <<>>, [who |-> "bFF"], "tuple")}

GlobalChoices == {[App |-> "sweb"]}

LoggerName == "app"

dconst == <<batch_size, auto_flush_timeout, buffer, flush_deadline, running,
            state, lock, pc, held, emitted, session_open, entered, published,
            publishing, stopBuffer, stopVia, init_args, manualFlush>>

\* publish_log_batch is modelled as one step and its outcome is kept in pub
\* until the call returns; the steps of the other threads are placed after
\* the return
NoCallInProgress == pub = NoPublish

\* a logging call on a StructuredLogger (_log, makeRecord) or on a plain
\* logger, handled by SeqLogHandler.emit; atCall notes the global properties
\* in force at the call
Log(call) ==
    /\ NoCallInProgress
    /\ nlogs < MaxLogs
    /\ LET record ==
             IF call.cls = "structured"
             THEN _log(gprops, LoggerName, call.msg, call.args, call.exc, call.kwargs)
             ELSE LogRecord(LoggerName, call.msg, call.args, call.exc)
       IN  log_queue' = emit(log_queue, record @@ [atCall |-> gprops])
    /\ nlogs' = nlogs + 1
    /\ UNCHANGED <<gprops, formatter, pub>>
    /\ UNCHANGED dconst

SetGlobal(properties) ==
    /\ NoCallInProgress
    /\ gprops' = set_global_log_properties(properties)
    /\ UNCHANGED <<log_queue, formatter, pub, nlogs>>
    /\ UNCHANGED dconst

ResetGlobal ==
    /\ NoCallInProgress
    /\ gprops' = reset_global_log_properties
    /\ UNCHANGED <<log_queue, formatter, pub, nlogs>>
    /\ UNCHANGED dconst

ClearGlobal ==
    /\ NoCallInProgress
    /\ gprops' = clear_global_log_properties
    /\ UNCHANGED <<log_queue, formatter, pub, nlogs>>
    /\ UNCHANGED dconst

\* the consumer hands the next batch (at most batch_size records, in queue
\* order) to publish_log_batch; the request's outcome and the presence of an
\* ambient exception are the environment's choice
Publish ==
    /\ NoCallInProgress
    /\ log_queue # <<>>
    /\ \E n \in 1..batch_size :
          /\ n <= Len(log_queue)
          /\ LET batch == SubSeq(log_queue, 1, n)
                 ambients == {FALSE} \cup {\E i \in 1..n : batch[i].exc = "flag"}
             IN  \E ambient \in ambients :
                   LET sent == publish_log_batch(batch, gprops, formatter, "ok",
                                                 ambient).sends = 1
                   IN  \E post \in (IF sent THEN PostResults ELSE {"ok"}) :
                         pub' = publish_log_batch(batch, gprops, formatter, post,
                                                  ambient)
          /\ log_queue' = SubSeq(log_queue, n + 1, Len(log_queue))
    /\ UNCHANGED <<gprops, formatter, nlogs>>
    /\ UNCHANGED dconst

\* publish_log_batch returns (or raises) into the consumer; the batch is dropped
PublishReturn ==
    /\ ~NoCallInProgress
    /\ pub' = NoPublish
    /\ UNCHANGED <<log_queue, gprops, formatter, nlogs>>
    /\ UNCHANGED dconst

InitPub ==
    /\ InitDispatcher(MaxBatch, None)
    /\ \E fmt \in {"none", "set"} : InitPublisher(fmt)

NextPub ==
    \/ \E call \in Calls : Log(call)
    \/ \E properties \in GlobalChoices : SetGlobal(properties)
    \/ ResetGlobal
    \/ ClearGlobal
    \/ Publish
    \/ PublishReturn

SpecPub == InitPub /\ [][NextPub]_vars

\* ================================================================ claims
Handed == Flatten(published)

OwnEvents(seq, p) == SelectSeq(seq, LAMBDA r : r[1] = p)

\* C1: the concatenation of the batches handed to the publish callback, in
\* the order of the publish calls, is a prefix of the order in which the
\* events entered the queue, and each producer's events appear in the order
\* that producer emitted them (no reordering, no duplicate).
C1_FifoPrefix ==
    /\ IsPrefix(Handed, entered)
    /\ \A p \in Producers :
          LET own == OwnEvents(Handed, p) IN
          \A i \in 1..Len(own) : own[i] = <<p, i>>

\* C1 witness: two batches have been handed over, one of them after a manual
\* flush, and events of both producers have been published.
C1_Witness ==
    /\ Len(published) >= 2
    /\ manualFlush
    /\ \A p \in Producers : OwnEvents(Handed, p) # <<>>
    /\ \E i \in 1..Len(Handed) : Handed[i][2] = 2

C3_OnePublishAtATime ==
    /\ Cardinality(publishing) <= 1
    /\ \A i, j \in 1..Len(Handed) : Handed[i] = Handed[j] => i = j

\* C3 witness: a manual flush() is inside the callback while another
\* thread's flush() and the worker's own flush are waiting to start.
C3_Witness ==
    /\ publishing = {"f1"}
    /\ pc["f2"] = "flush"
    /\ pc["worker"] = "flush"

C8_DeadlineIffBuffer == (flush_deadline # None) <=> (buffer # <<>>)

\* C8 amended: with an auto-flush timeout configured flush_deadline is
\* non-null exactly when the buffer is non-empty; with none configured it is
\* always null.
C8_DeadlineIffBufferWithTimeout ==
    IF init_args.auto_flush_timeout # None
    THEN (flush_deadline # None) <=> (buffer # <<>>)
    ELSE flush_deadline = None

\* C8 witness: a timeout is configured, a flush has already cleared the
\* deadline once, and the refilled buffer has a deadline again.
C8_Witness ==
    /\ init_args.auto_flush_timeout # None
    /\ published # <<>>
    /\ buffer # <<>>
    /\ flush_deadline # None

\* ---------------------------------------------------------------- publisher claims
Failed(post) == post \in PostResults \ {"ok"}

\* C5 as stated: whenever json.dumps fails on a non-empty batch, every record
\* of the batch is reported through handleError, each exactly once, and no
\* HTTP send is made.
C5_SerializationFailureReportsAll ==
    pub.dumps \in {"TypeError", "ValueError"}
        => pub.reported = pub.batch /\ pub.sends = 0

\* C6: when the request fails (network error or error status) exactly the
\* first record of the batch is reported through handleError and exactly one
\* send was attempted; when the request succeeds no record is reported; no
\* publish call ever sends more than once.
C6_TransportFailureReportsFirst ==
    /\ Failed(pub.post) => pub.reported = <<pub.batch[1]>> /\ pub.sends = 1
    /\ pub.post = "ok" => pub.reported = <<>> /\ pub.sends = 1
    /\ pub.sends <= 1

\* C6 witness: a batch of two records whose request failed with an error
\* status.
C6_Witness ==
    /\ pub.post = "http_body"
    /\ Len(pub.batch) = 2
    /\ pub.batch[1] # pub.batch[2]

\* C7 as stated: no exception escapes publish_log_batch, whatever fails while
\* building, serializing or transmitting the batch.
C7_NoExceptionEscapes == pub.raised = "none"

\* C9 as stated: for a record with positional arguments the event's
\* MessageTemplate is the literal template and its Properties are the global
\* properties plus one entry per argument keyed by its zero-based index.
C9_LiteralTemplate ==
    \A i \in 1..Len(pub.events) :
        pub.batch[i].args # <<>>
            => /\ pub.events[i].MessageTemplate = pub.batch[i].msg
               /\ pub.events[i].Properties =
                     Overlay(pub.globals, ArgProperties(pub.batch[i].args))

\* C9 amended: for a record with positional arguments the event's
\* MessageTemplate is the rendered message (the template with the arguments
\* substituted: "x=42" for "x=%s" with 42) and its Properties are the global
\* properties read when the event is built, LoggerName, and one entry per
\* argument (bytes encoded as text) keyed by its zero-based index.
C9_RenderedTemplate ==
    \A i \in 1..Len(pub.events) :
        LET record == pub.batch[i]
            event == pub.events[i]
            index == {IndexName[j] : j \in 1..Len(record.args)}
        IN  record.args # <<>>
            => /\ Len(event.MessageTemplate) = Len(record.msg)
               /\ (record.msg = <<"x=", "%s">> /\ record.args = <<"i42">>)
                     => event.MessageTemplate = <<"x=", "42">>
               /\ \A j \in 1..Len(record.msg) :
                     record.msg[j] # "%s" => event.MessageTemplate[j] = record.msg[j]
               /\ \A j \in 1..Len(record.msg) :
                     record.msg[j] = "%s" => event.MessageTemplate[j] # "%s"
               /\ DOMAIN event.Properties =
                     DOMAIN pub.globals \cup {"LoggerName"} \cup index
               /\ \A k \in DOMAIN pub.globals \ ({"LoggerName"} \cup index) :
                     event.Properties[k] = pub.globals[k]
               /\ event.Properties["LoggerName"] = "sapp"
               /\ \A j \in 1..Len(record.args) :
                     event.Properties[IndexName[j]] =
                        _encode_bytes_if_required(record.args[j])

\* C9 witness: the event of log("x=%s", 42) has been built and serialized.
C9_Witness ==
    /\ pub.events # <<>>
    /\ pub.dumps = "ok"
    /\ pub.batch[1].msg = <<"x=", "%s">>
    /\ pub.batch[1].args = <<"i42">>

\* C10 as stated: the Properties sent for an event are those built from the
\* global properties in force at the logging call, whatever was set, reset
\* or cleared between the call and the publication of its batch.
C10_GlobalsAsOfCall ==
    \A i \in 1..Len(pub.events) :
        pub.events[i].Properties =
            BuildProperties(pub.batch[i], pub.batch[i].atCall)

\* C11 as stated: when the request fails with an error-status response that
\* has a non-empty body the diagnostic written is the one derived from that
\* body; the "response unavailable" diagnostic is written only when the
\* failure carries no response (network error), and the "body empty"
\* diagnostic only when a response is present and its body is empty.
C11_DiagnosticFromResponse ==
    /\ pub.post = "http_body" => pub.diag = "body"
    /\ pub.diag = "unavailable" => pub.post = "network"
    /\ pub.diag = "empty" => pub.post \in {"http_empty", "redirect_empty"}

====
